---- MODULE Spec2Model ----
(***************************************************************************)
(* A model of the four command-line utilities of the repository:           *)
(*   scripts/report_check.py   the report submitter     (SpecReport)       *)
(*   scripts/check_pr.py       the format validator     (SpecFormat)       *)
(*   scripts/llm_check.py      the LLM quality evaluator (SpecEval)        *)
(*   scripts/code_review.py    the LLM code reviewer    (SpecReview)       *)
(* Every utility is one process; a specification models one run of one     *)
(* utility, the variables of the other utilities staying idle.  Strings    *)
(* are sequences of one-character strings; answers of the hosting          *)
(* platform and of the completion endpoint are chosen nondeterministically.*)
(***************************************************************************)
EXTENDS Integers, Sequences, FiniteSets, TLC

VARIABLES
    \* scripts/report_check.py
    rep_pc, rep_env, rep_arg, rep_conclusion, rep_posted, rep_status,
    rep_success, rep_raised, rep_exit,
    \* scripts/check_pr.py
    fmt_pc, fmt_argv, fmt_title_valid, fmt_title_message, fmt_body_valid,
    fmt_body_message, fmt_conclusion, fmt_report, fmt_exit,
    \* scripts/llm_check.py
    ev_pc, ev_argc, ev_api_key, ev_retry_count, ev_log, ev_evaluation,
    ev_comment, ev_exit,
    \* scripts/code_review.py
    rv_pc, rv_env, rv_api_key, rv_max_files, rv_list_outcome, rv_diff_outcome,
    rv_changed_files, rv_diff, rv_idx, rv_retry_count, rv_logs, rv_trace,
    rv_total_issues, rv_high_severity_issues, rv_reviewed_files,
    rv_low_quality_files, rv_requests, rv_conclusion, rv_exit

repVars == <<rep_pc, rep_env, rep_arg, rep_conclusion, rep_posted, rep_status,
             rep_success, rep_raised, rep_exit>>
fmtVars == <<fmt_pc, fmt_argv, fmt_title_valid, fmt_title_message,
             fmt_body_valid, fmt_body_message, fmt_conclusion, fmt_report,
             fmt_exit>>
evVars == <<ev_pc, ev_argc, ev_api_key, ev_retry_count, ev_log, ev_evaluation,
            ev_comment, ev_exit>>
rvVars == <<rv_pc, rv_env, rv_api_key, rv_max_files, rv_list_outcome,
            rv_diff_outcome, rv_changed_files, rv_diff, rv_idx, rv_retry_count,
            rv_logs, rv_trace, rv_total_issues, rv_high_severity_issues,
            rv_reviewed_files, rv_low_quality_files, rv_requests,
            rv_conclusion, rv_exit>>
vars == <<repVars, fmtVars, evVars, rvVars>>
\* a run of one utility leaves the variables of the others alone
repOthers == <<fmtVars, evVars, rvVars>>
fmtOthers == <<repVars, evVars, rvVars>>
evOthers == <<repVars, fmtVars, rvVars>>
rvOthers == <<repVars, fmtVars, evVars>>

\* the process has not exited yet (no exit status of a process is negative)
NoExit == 0 - 1
None == "None"

(***************************************************************************)
(* The hosting platform's answers.                                         *)
(***************************************************************************)
HTTP_OK == 200
HTTP_CREATED == 201
\* the status codes the model lets the platform answer with
Statuses == {200, 201, 204, 304, 404, 500}
\* requests.get / requests.post either answers with a status or raises
HttpOutcomes == [kind : {"status"}, code : Statuses]
                  \cup {[kind |-> "exception", code |-> 0]}
\* Response.raise_for_status raises exactly for 4xx and 5xx
RaisesForStatus(code) == code >= 400 /\ code < 600
\* no request was made
NoOutcome == [kind |-> "none", code |-> 0]

(***************************************************************************)
(* scripts/report_check.py                                                 *)
(***************************************************************************)
Conclusions == {"success", "failure", "neutral", "cancelled", "skipped",
                "timed_out"}
\* TRUE: the variable is set to a non-empty value
RepEnvs == [token : BOOLEAN, repo : BOOLEAN, sha : BOOLEAN]

\* a plausible bug: any 2xx answer counts as a created check run
create_check_run_ok2xx(env, outcome) ==
    IF ~(env.token /\ env.repo /\ env.sha)
    THEN [ret |-> FALSE, raised |-> FALSE, posted |-> FALSE]
    ELSE [ret |-> outcome.kind = "status" /\ outcome.code >= 200
                    /\ outcome.code < 300,
          raised |-> FALSE, posted |-> TRUE]

\* create_check_run: ret is the value returned, raised whether an exception
\* leaves the function, posted whether the POST was attempted
create_check_run(env, outcome) ==
    IF ~(env.token /\ env.repo /\ env.sha)
    THEN [ret |-> FALSE, raised |-> FALSE, posted |-> FALSE]
    ELSE IF outcome.kind = "exception"
    THEN [ret |-> FALSE, raised |-> FALSE, posted |-> TRUE]
    ELSE [ret |-> outcome.code = HTTP_CREATED, raised |-> FALSE,
          posted |-> TRUE]

\* argparse: --conclusion defaults to neutral
RepArgs == Conclusions \cup {"<absent>"}
parse_conclusion(arg) == IF arg = "<absent>" THEN "neutral" ELSE arg

\* main of report_check.py as a function of its inputs
report_main(env, arg, outcome) ==
    LET conclusion == parse_conclusion(arg)
        r == create_check_run(env, outcome)
    IN [conclusion |-> conclusion,
        posted |-> r.posted,
        success |-> r.ret,
        raised |-> r.raised,
        exit |-> IF r.raised THEN 1
                 ELSE IF r.ret \/ conclusion = "success" THEN 0 ELSE 1]

RepIdle ==
    /\ rep_pc = "idle"
    /\ rep_env = [token |-> FALSE, repo |-> FALSE, sha |-> FALSE]
    /\ rep_arg = None
    /\ rep_conclusion = None /\ rep_posted = FALSE /\ rep_status = NoOutcome
    /\ rep_success = FALSE /\ rep_raised = FALSE /\ rep_exit = NoExit

RepInit ==
    /\ rep_pc = "start"
    /\ rep_env \in RepEnvs
    /\ rep_arg \in RepArgs
    /\ rep_conclusion = None /\ rep_posted = FALSE /\ rep_status = NoOutcome
    /\ rep_success = FALSE /\ rep_raised = FALSE /\ rep_exit = NoExit

RepMain ==
    /\ rep_pc = "start"
    /\ \E outcome \in HttpOutcomes :
          LET m == report_main(rep_env, rep_arg, outcome)
          IN /\ rep_conclusion' = m.conclusion
             /\ rep_posted' = m.posted
             /\ rep_status' = IF m.posted THEN outcome ELSE NoOutcome
             /\ rep_success' = m.success
             /\ rep_raised' = m.raised
             /\ rep_exit' = m.exit
    /\ rep_pc' = "exit"
    /\ UNCHANGED <<rep_env, rep_arg>>
    /\ UNCHANGED repOthers

(***************************************************************************)
(* scripts/check_pr.py                                                     *)
(***************************************************************************)
LF == "\n"
\* str.strip and the regex class \s: the white space of the model's alphabet
IsSpace(c) == c \in {" ", LF}
\* the regex class \w: of the model's alphabet, the letters
IsWord(c) == ~IsSpace(c) /\ c \notin {"#", "-", "[", "]"}

RECURSIVE Flatten(_)
Flatten(ts) == IF ts = <<>> THEN <<>> ELSE Head(ts) \o Flatten(Tail(ts))

HasPrefix(s, p) == Len(s) >= Len(p) /\ SubSeq(s, 1, Len(p)) = p

\* the alternation of the default PR_TITLE_REGEX
Categories == { <<"F","e","a","t","u","r","e">>, <<"F","i","x">>,
                <<"D","o","c","s">>, <<"R","e","f","a","c","t","o","r">>,
                <<"T","e","s","t">>, <<"C","h","o","r","e">> }
PR_TITLE_REGEX == "^\\[(Feature|Fix|Docs|Refactor|Test|Chore)\\] .+"

\* re.match(PR_TITLE_REGEX, title) for the default pattern: anchored at the
\* start only; "." is any character but a line feed
re_match_title(title) ==
    \E c \in Categories :
        LET p == <<"[">> \o c \o <<"]", " ">>
        IN /\ HasPrefix(title, p)
           /\ Len(title) > Len(p)
           /\ title[Len(p) + 1] # LF

\* check_pr_title: the pair (valid, message); the message is the text's
\* variable parts
check_pr_title(title) ==
    IF ~re_match_title(title)
    THEN [valid |-> FALSE,
          message |-> [kind |-> "title_error", title |-> title,
                       pattern |-> PR_TITLE_REGEX]]
    ELSE [valid |-> TRUE,
          message |-> [kind |-> "title_ok", title |-> title, pattern |-> ""]]

(* A body is run-length encoded: a sequence of runs [c, n], n >= 1 copies   *)
(* of the character c.                                                      *)
RECURSIVE lstrip(_)
lstrip(body) ==
    IF body # <<>> /\ IsSpace(Head(body).c) THEN lstrip(Tail(body)) ELSE body
RECURSIVE rstrip(_)
rstrip(body) ==
    IF body # <<>> /\ IsSpace(body[Len(body)].c)
    THEN rstrip(SubSeq(body, 1, Len(body) - 1)) ELSE body
strip(body) == rstrip(lstrip(body))
RECURSIVE len(_)
len(body) == IF body = <<>> THEN 0 ELSE Head(body).n + len(Tail(body))

\* re.search(r'#+\s+\w+', body): a '#', then white space only up to a word
\* character
re_search_heading(body) ==
    \E i \in 1..Len(body) : \E j \in (i + 1)..(Len(body) - 1) :
        /\ body[i].c = "#"
        /\ \A k \in (i + 1)..j : IsSpace(body[k].c)
        /\ IsWord(body[j + 1].c)

MIN_BODY_LEN == 50

\* a plausible bug: the length of the body as given, not of the stripped body
body_too_short_unstripped(body) == body = <<>> \/ len(body) < MIN_BODY_LEN

\* not body or len(body.strip()) < 50
body_too_short(body) == body = <<>> \/ len(strip(body)) < MIN_BODY_LEN

\* check_pr_body: the pair (valid, message)
check_pr_body(body) ==
    IF body_too_short(body)
    THEN [valid |-> FALSE,
          message |-> [kind |-> "body_error", warning |-> FALSE]]
    ELSE [valid |-> TRUE,
          message |-> [kind |-> "body_ok",
                       warning |-> ~re_search_heading(body)]]

\* the inputs of the model: titles are concatenations of a few tokens
MaxTitleTokens == 3
TitleTokens == { <<"[","F","i","x","]">>, <<"[","D","o","c","s","]">>,
                 <<"[","W","I","P","]">>, <<" ">>, <<LF>>, <<"x">> }
Titles == { Flatten(ts) :
              ts \in UNION { [1..n -> TitleTokens] : n \in 0..MaxTitleTokens } }
SampleTitles == { <<>>,
                  Flatten(<< <<"[","F","i","x","]">>, <<" ">>, <<"x">> >>),
                  Flatten(<< <<"[","W","I","P","]">>, <<" ">>, <<"x">> >>) }

\* bodies are made of a few runs, short ones and ones about the minimum length
MaxBodyRuns == 3
BodyChars == {"#", " ", "w"}
BodyCounts == {1, MIN_BODY_LEN - 1, MIN_BODY_LEN}
Runs == [c : BodyChars, n : BodyCounts]
Bodies == UNION { [1..n -> Runs] : n \in 0..MaxBodyRuns }
SampleBodies ==
    { <<>>,
      << [c |-> "w", n |-> MIN_BODY_LEN - 1] >>,
      << [c |-> "w", n |-> MIN_BODY_LEN] >>,
      << [c |-> " ", n |-> 1], [c |-> "w", n |-> MIN_BODY_LEN - 1],
         [c |-> LF, n |-> 1] >>,
      << [c |-> "#", n |-> 1], [c |-> " ", n |-> 1], [c |-> "w", n |-> 1] >>,
      << [c |-> "#", n |-> 1], [c |-> " ", n |-> 1],
         [c |-> "w", n |-> MIN_BODY_LEN] >> }

\* sys.argv[1:]: nothing, a title, or a title and a body
FmtArgvs == { <<>> } \cup { <<t>> : t \in Titles }
              \cup { <<tb[1], tb[2]>> :
                       tb \in (Titles \X SampleBodies)
                                \cup (SampleTitles \X Bodies) }

\* what happens to the reporter subprocess: the script is not there, the
\* interpreter cannot be started (subprocess.run raises OSError), or it runs
\* in some environment with some answer of the platform
ReportRuns ==
    { [kind |-> k, env |-> [token |-> FALSE, repo |-> FALSE, sha |-> FALSE],
       outcome |-> NoOutcome] : k \in {"missing", "oserror"} }
    \cup [kind : {"ran"}, env : RepEnvs, outcome : HttpOutcomes]

\* call_report_check: ret is the value returned, raised whether an exception
\* leaves the function (only CalledProcessError is caught), delivered whether
\* the check run was created
call_report_check(conclusion, run) ==
    IF run.kind = "missing"
    THEN [kind |-> run.kind, ret |-> FALSE, raised |-> FALSE,
          delivered |-> FALSE]
    ELSE IF run.kind = "oserror"
    THEN [kind |-> run.kind, ret |-> FALSE, raised |-> TRUE,
          delivered |-> FALSE]
    ELSE LET m == report_main(run.env, conclusion, run.outcome)
         IN [kind |-> run.kind, ret |-> m.exit = 0, raised |-> FALSE,
             delivered |-> m.success]

NoReport == [kind |-> "none", ret |-> FALSE, raised |-> FALSE,
             delivered |-> FALSE]
NoMessage == [kind |-> "none"]

FmtIdle ==
    /\ fmt_pc = "idle" /\ fmt_argv = <<>>
    /\ fmt_title_valid = FALSE /\ fmt_title_message = NoMessage
    /\ fmt_body_valid = FALSE /\ fmt_body_message = NoMessage
    /\ fmt_conclusion = None /\ fmt_report = NoReport /\ fmt_exit = NoExit

FmtInit ==
    /\ fmt_pc = "start" /\ fmt_argv \in FmtArgvs
    /\ fmt_title_valid = FALSE /\ fmt_title_message = NoMessage
    /\ fmt_body_valid = FALSE /\ fmt_body_message = NoMessage
    /\ fmt_conclusion = None /\ fmt_report = NoReport /\ fmt_exit = NoExit

pr_title == fmt_argv[1]
pr_body == IF Len(fmt_argv) > 1 THEN fmt_argv[2] ELSE <<>>

\* main, lines 141-154: the conclusion from the two checks
fmt_verdict(title_valid, body_valid) ==
    IF ~(title_valid /\ body_valid) THEN "failure" ELSE "success"

\* main, lines 130-132: no title given
FmtUsage ==
    /\ fmt_pc = "start" /\ Len(fmt_argv) < 1
    /\ fmt_pc' = "exit" /\ fmt_exit' = 1
    /\ UNCHANGED <<fmt_argv, fmt_title_valid, fmt_title_message,
                   fmt_body_valid, fmt_body_message, fmt_conclusion,
                   fmt_report>>
    /\ UNCHANGED fmtOthers

\* main, lines 134-147 and 154-164: both checks, then the conclusion
FmtCheck ==
    /\ fmt_pc = "start" /\ Len(fmt_argv) >= 1
    /\ LET t == check_pr_title(pr_title)
           b == check_pr_body(pr_body)
       IN /\ fmt_title_valid' = t.valid
          /\ fmt_title_message' = t.message
          /\ fmt_body_valid' = b.valid
          /\ fmt_body_message' = b.message
          /\ fmt_conclusion' = fmt_verdict(t.valid, b.valid)
    /\ fmt_pc' = "report"
    /\ UNCHANGED <<fmt_argv, fmt_report, fmt_exit>>
    /\ UNCHANGED fmtOthers

\* main, lines 149-152 and 166-169: the report, then the exit status; an
\* exception that leaves call_report_check ends the process with status 1
FmtReport ==
    /\ fmt_pc = "report"
    /\ \E run \in ReportRuns :
          LET r == call_report_check(fmt_conclusion, run)
          IN /\ fmt_report' = r
             /\ fmt_exit' = IF r.raised THEN 1
                            ELSE IF fmt_conclusion = "failure" THEN 1 ELSE 0
    /\ fmt_pc' = "exit"
    /\ UNCHANGED <<fmt_argv, fmt_title_valid, fmt_title_message,
                   fmt_body_valid, fmt_body_message, fmt_conclusion>>
    /\ UNCHANGED fmtOthers

(***************************************************************************)
(* scripts/llm_check.py                                                    *)
(***************************************************************************)
\* the log of a retry loop: the calls of the completion endpoint, each with
\* how it ended, and the pauses, each with its length in seconds
Call(res) == [op |-> "call", res |-> res, secs |-> 0]
Sleep(secs) == [op |-> "sleep", res |-> "", secs |-> secs]

\* QualityVerdict: the fields of the response the verdict is read from
ScoreValues == 1..10
Evaluations == [quality_score : ScoreValues, is_acceptable : BOOLEAN]
NoEvaluation == [quality_score |-> 0, is_acceptable |-> FALSE]
\* a call of the completion endpoint raises, answers with text that is no
\* JSON, or answers with a JSON object
EvOutcomes == { [kind |-> k, result |-> NoEvaluation] :
                  k \in {"exception", "unparseable"} }
                \cup [kind : {"json"}, result : Evaluations]

MAX_RETRIES == 3
RETRY_PAUSE == 2

\* a plausible bug: one attempt too many
ev_may_retry_off_by_one(retry_count) == retry_count <= MAX_RETRIES

\* evaluate_pr_with_llm, line 101: the loop's condition
ev_may_retry(retry_count) == retry_count < MAX_RETRIES

\* what happens to the comment: the environment of post_comment and the
\* platform's answer
PostRuns == [env_ok : BOOLEAN, outcome : HttpOutcomes]

\* post_comment: the value returned; no exception leaves it
post_comment(run) ==
    IF ~run.env_ok THEN "None"
    ELSE IF run.outcome.kind = "status" /\ run.outcome.code = HTTP_CREATED
    THEN "True"
    ELSE "False"

\* main, lines 194-199: the exit status
ev_exit_status(evaluation) ==
    IF ~evaluation.is_acceptable THEN 1 ELSE 0

EvIdle ==
    /\ ev_pc = "idle" /\ ev_argc = 0 /\ ev_api_key = FALSE
    /\ ev_retry_count = 0 /\ ev_log = <<>> /\ ev_evaluation = NoEvaluation
    /\ ev_comment = "" /\ ev_exit = NoExit

\* ev_argc: the number of arguments given, the title and the body
EvInit ==
    /\ ev_pc = "start" /\ ev_argc \in 0..2 /\ ev_api_key \in BOOLEAN
    /\ ev_retry_count = 0 /\ ev_log = <<>> /\ ev_evaluation = NoEvaluation
    /\ ev_comment = "" /\ ev_exit = NoExit

\* main, lines 158-160: no title given
EvUsage ==
    /\ ev_pc = "start" /\ ev_argc < 1
    /\ ev_pc' = "exit" /\ ev_exit' = 1
    /\ UNCHANGED <<ev_argc, ev_api_key, ev_retry_count, ev_log,
                   ev_evaluation, ev_comment>>
    /\ UNCHANGED evOthers

\* evaluate_pr_with_llm, lines 62-67: no credential
EvNoKey ==
    /\ ev_pc = "start" /\ ev_argc >= 1 /\ ~ev_api_key
    /\ ev_pc' = "exit" /\ ev_exit' = 1
    /\ UNCHANGED <<ev_argc, ev_api_key, ev_retry_count, ev_log,
                   ev_evaluation, ev_comment>>
    /\ UNCHANGED evOthers

\* evaluate_pr_with_llm, lines 69-99: the client, the prompt, the counter
EvBegin ==
    /\ ev_pc = "start" /\ ev_argc >= 1 /\ ev_api_key
    /\ ev_pc' = "loop" /\ ev_retry_count' = 0
    /\ UNCHANGED <<ev_argc, ev_api_key, ev_log, ev_evaluation, ev_comment,
                   ev_exit>>
    /\ UNCHANGED evOthers

\* evaluate_pr_with_llm, lines 101-125: one turn of the loop
EvAttempt ==
    /\ ev_pc = "loop" /\ ev_may_retry(ev_retry_count)
    /\ \E o \in EvOutcomes :
          IF o.kind = "json"
          THEN /\ ev_log' = Append(ev_log, Call(o.kind))
               /\ ev_evaluation' = o.result
               /\ ev_pc' = "evaluated"
               /\ UNCHANGED ev_retry_count
          ELSE /\ ev_log' = ev_log \o <<Call(o.kind), Sleep(RETRY_PAUSE)>>
               /\ ev_retry_count' = ev_retry_count + 1
               /\ UNCHANGED <<ev_evaluation, ev_pc>>
    /\ UNCHANGED <<ev_argc, ev_api_key, ev_comment, ev_exit>>
    /\ UNCHANGED evOthers

\* evaluate_pr_with_llm, lines 127-128: the loop ended without a result
EvGiveUp ==
    /\ ev_pc = "loop" /\ ~ev_may_retry(ev_retry_count)
    /\ ev_pc' = "exit" /\ ev_exit' = 1
    /\ UNCHANGED <<ev_argc, ev_api_key, ev_retry_count, ev_log,
                   ev_evaluation, ev_comment>>
    /\ UNCHANGED evOthers

\* main, lines 171-199: the comment, then the exit status
EvFinish ==
    /\ ev_pc = "evaluated"
    /\ \E run \in PostRuns :
          LET comment_success == post_comment(run)
          IN /\ ev_comment' = comment_success
             /\ ev_exit' = ev_exit_status(ev_evaluation)
    /\ ev_pc' = "exit"
    /\ UNCHANGED <<ev_argc, ev_api_key, ev_retry_count, ev_log,
                   ev_evaluation>>
    /\ UNCHANGED evOthers

(***************************************************************************)
(* scripts/code_review.py                                                  *)
(***************************************************************************)
\* TRUE: the variable is set to a non-empty value
RvEnvs == [token : BOOLEAN, pr_number : BOOLEAN, repo : BOOLEAN]
rv_env_complete(env) == env.token /\ env.pr_number /\ env.repo

\* an entry of the changed-file list, as far as main reads it
MaxChanged == 2
Files == [status : {"modified", "removed"}, binary : BOOLEAN]
FileLists == UNION { [1..n -> Files] : n \in 0..MaxChanged }

\* MAX_FILES_TO_REVIEW and REVIEW_THRESHOLD with their defaults
DEFAULT_MAX_FILES == 10
REVIEW_THRESHOLD == 6
MaxFilesSet == 2
MaxFilesValues == ((0 - 1)..MaxFilesSet) \cup {DEFAULT_MAX_FILES}

\* a plausible bug: no truncation
slice_all(files, m) == files

\* files[:m] as Python slices: a negative m counts from the end
slice(files, m) ==
    IF m >= 0
    THEN SubSeq(files, 1, IF m < Len(files) THEN m ELSE Len(files))
    ELSE SubSeq(files, 1, IF Len(files) + m > 0 THEN Len(files) + m ELSE 0)

\* FileReview: the fields of the response main reads
MaxIssues == 1
Severities == {"high", "medium", "low"}
ReviewScores == {REVIEW_THRESHOLD - 1, REVIEW_THRESHOLD}
ReviewResults == [score : ReviewScores,
                  issues : UNION { [1..n -> Severities] : n \in 0..MaxIssues }]

RETRY_DELAYS == <<1, 2, 4>>

\* a plausible bug: the evaluator's fixed pause
retry_delay_fixed(retry_count) == RETRY_PAUSE

\* review_code_with_llm, line 129: the pause that goes with an attempt
retry_delay(retry_count) == RETRY_DELAYS[retry_count + 1]

\* review_code_with_llm, line 144: the last attempt
is_last_attempt(retry_count) == retry_count = Len(RETRY_DELAYS) - 1

\* sum(1 for issue in issues if issue['severity'] == 'high')
RECURSIVE count_high(_)
count_high(issues) ==
    IF issues = <<>> THEN 0
    ELSE (IF Head(issues) = "high" THEN 1 ELSE 0) + count_high(Tail(issues))

\* a plausible bug: a run that reviewed nothing passes
conclude_no_neutral(reviewed_files, high_severity_issues, low_quality_files) ==
    IF high_severity_issues > 0 \/ low_quality_files > 0 THEN "failure"
    ELSE "success"

\* main, lines 279-292: the conclusion
conclude(reviewed_files, high_severity_issues, low_quality_files) ==
    IF reviewed_files = 0 THEN "neutral"
    ELSE IF high_severity_issues > 0 \/ low_quality_files > 0 THEN "failure"
    ELSE "success"

\* a plausible bug: a single high-severity issue is let through
rv_exit_status_above_one(high_severity_issues) ==
    IF high_severity_issues > 1 THEN 1 ELSE 0

\* main, lines 323-328: the exit status
rv_exit_status(high_severity_issues) ==
    IF high_severity_issues > 0 THEN 1 ELSE 0

RvBlank ==
    /\ rv_list_outcome = NoOutcome /\ rv_diff_outcome = NoOutcome
    /\ rv_changed_files = <<>> /\ rv_diff = "" /\ rv_idx = 0
    /\ rv_retry_count = 0 /\ rv_logs = <<>> /\ rv_trace = <<>>
    /\ rv_total_issues = 0 /\ rv_high_severity_issues = 0
    /\ rv_reviewed_files = 0 /\ rv_low_quality_files = 0 /\ rv_requests = 0
    /\ rv_conclusion = None /\ rv_exit = NoExit

RvIdle ==
    /\ rv_pc = "idle"
    /\ rv_env = [token |-> FALSE, pr_number |-> FALSE, repo |-> FALSE]
    /\ rv_api_key = FALSE /\ rv_max_files = 0
    /\ RvBlank

RvInit ==
    /\ rv_pc = "start"
    /\ rv_env \in RvEnvs /\ rv_api_key \in BOOLEAN
    /\ rv_max_files \in MaxFilesValues
    /\ RvBlank

rvConfig == <<rv_env, rv_api_key, rv_max_files>>
rvCounters == <<rv_total_issues, rv_high_severity_issues, rv_reviewed_files,
                rv_low_quality_files>>
rvLoop == <<rv_idx, rv_retry_count, rv_logs, rv_trace>>

\* the files the loop of main goes through
considered == slice(rv_changed_files, rv_max_files)

\* get_changed_files: one GET, whatever the environment holds; 200 gives the
\* list, a raised exception or a 4xx/5xx status ends the process, any other
\* status falls through to "return []"
RvGetChangedFiles ==
    /\ rv_pc = "start"
    /\ rv_requests' = rv_requests + 1
    /\ \E outcome \in HttpOutcomes, files \in FileLists :
          /\ rv_list_outcome' = outcome
          /\ IF outcome.kind = "status" /\ outcome.code = HTTP_OK
             THEN /\ rv_changed_files' = files
                  /\ rv_pc' = "diff" /\ UNCHANGED rv_exit
             ELSE IF outcome.kind = "exception" \/ RaisesForStatus(outcome.code)
             THEN /\ rv_pc' = "exit" /\ rv_exit' = 1
                  /\ UNCHANGED rv_changed_files
             ELSE /\ rv_changed_files' = <<>>
                  /\ rv_pc' = "diff" /\ UNCHANGED rv_exit
    /\ UNCHANGED <<rvConfig, rvCounters, rvLoop, rv_diff_outcome, rv_diff,
                   rv_conclusion>>
    /\ UNCHANGED rvOthers

\* get_pr_diff, lines 17-23: a variable is missing
RvDiffNoEnv ==
    /\ rv_pc = "diff" /\ ~rv_env_complete(rv_env)
    /\ rv_pc' = "exit" /\ rv_exit' = 1
    /\ UNCHANGED <<rvConfig, rvCounters, rvLoop, rv_list_outcome,
                   rv_diff_outcome, rv_changed_files, rv_diff, rv_requests,
                   rv_conclusion>>
    /\ UNCHANGED rvOthers

\* get_pr_diff, lines 25-50: one GET; 200 gives the text, a raised exception or
\* a 4xx/5xx status ends the process, any other status falls through to
\* "return None"
RvGetDiff ==
    /\ rv_pc = "diff" /\ rv_env_complete(rv_env)
    /\ rv_requests' = rv_requests + 1
    /\ \E outcome \in HttpOutcomes :
          /\ rv_diff_outcome' = outcome
          /\ IF outcome.kind = "status" /\ outcome.code = HTTP_OK
             THEN /\ rv_diff' = "text"
                  /\ rv_pc' = "loop" /\ UNCHANGED rv_exit
             ELSE IF outcome.kind = "exception" \/ RaisesForStatus(outcome.code)
             THEN /\ rv_pc' = "exit" /\ rv_exit' = 1
                  /\ UNCHANGED rv_diff
             ELSE /\ rv_diff' = None
                  /\ rv_pc' = "loop" /\ UNCHANGED rv_exit
    /\ UNCHANGED <<rvConfig, rvCounters, rvLoop, rv_list_outcome,
                   rv_changed_files, rv_conclusion>>
    /\ UNCHANGED rvOthers

\* main, lines 222-229: a removed or binary file is skipped
RvSkip ==
    /\ rv_pc = "loop" /\ rv_idx < Len(considered)
    /\ LET file == considered[rv_idx + 1]
       IN file.status = "removed" \/ file.binary
    /\ rv_idx' = rv_idx + 1
    /\ rv_trace' = Append(rv_trace, "skipped")
    /\ UNCHANGED <<rvConfig, rvCounters, rv_retry_count, rv_logs,
                   rv_list_outcome, rv_diff_outcome, rv_changed_files,
                   rv_diff, rv_requests, rv_pc, rv_conclusion, rv_exit>>
    /\ UNCHANGED rvOthers

\* main, lines 231-243: the content cannot be fetched, the file is skipped
RvFetchFailed ==
    /\ rv_pc = "loop" /\ rv_idx < Len(considered)
    /\ LET file == considered[rv_idx + 1]
       IN ~(file.status = "removed" \/ file.binary)
    /\ \E outcome \in HttpOutcomes :
          outcome.kind = "exception" \/ outcome.code # HTTP_OK
    /\ rv_requests' = rv_requests + 1
    /\ rv_idx' = rv_idx + 1
    /\ rv_trace' = Append(rv_trace, "unfetchable")
    /\ UNCHANGED <<rvConfig, rvCounters, rv_retry_count, rv_logs,
                   rv_list_outcome, rv_diff_outcome, rv_changed_files,
                   rv_diff, rv_pc, rv_conclusion, rv_exit>>
    /\ UNCHANGED rvOthers

\* main, lines 231-246, and review_code_with_llm, lines 87-92: the content is
\* fetched and the review entered; without a credential the process ends
RvFetched ==
    /\ rv_pc = "loop" /\ rv_idx < Len(considered)
    /\ LET file == considered[rv_idx + 1]
       IN ~(file.status = "removed" \/ file.binary)
    /\ rv_requests' = rv_requests + 1
    /\ IF ~rv_api_key
       THEN /\ rv_pc' = "exit" /\ rv_exit' = 1
            /\ UNCHANGED <<rv_retry_count, rv_logs>>
       ELSE /\ rv_pc' = "llm" /\ rv_retry_count' = 0
            /\ rv_logs' = Append(rv_logs, <<>>)
            /\ UNCHANGED rv_exit
    /\ UNCHANGED <<rvConfig, rvCounters, rv_idx, rv_trace, rv_list_outcome,
                   rv_diff_outcome, rv_changed_files, rv_diff, rv_conclusion>>
    /\ UNCHANGED rvOthers

\* the log of the review call under way, with one more entry
logged(entries) ==
    [rv_logs EXCEPT ![Len(rv_logs)] = rv_logs[Len(rv_logs)] \o entries]

\* review_code_with_llm, lines 129-141, and main, lines 247-276: an attempt
\* answers with JSON; the file is counted and its issues are added up
RvReviewed ==
    /\ rv_pc = "llm"
    /\ \E result \in ReviewResults :
          /\ rv_total_issues' = rv_total_issues + Len(result.issues)
          /\ rv_high_severity_issues' =
                rv_high_severity_issues + count_high(result.issues)
          /\ rv_low_quality_files' =
                rv_low_quality_files
                  + (IF result.score < REVIEW_THRESHOLD THEN 1 ELSE 0)
    /\ rv_logs' = logged(<<Call("json")>>)
    /\ rv_reviewed_files' = rv_reviewed_files + 1
    /\ rv_trace' = Append(rv_trace, "reviewed")
    /\ rv_idx' = rv_idx + 1
    /\ rv_pc' = "loop"
    /\ UNCHANGED <<rvConfig, rv_retry_count, rv_list_outcome, rv_diff_outcome,
                   rv_changed_files, rv_diff, rv_requests, rv_conclusion,
                   rv_exit>>
    /\ UNCHANGED rvOthers

\* review_code_with_llm, lines 143-148: an attempt that is not the last one
\* fails; the pause of this attempt, then the next attempt
RvRetry ==
    /\ rv_pc = "llm" /\ ~is_last_attempt(rv_retry_count)
    /\ rv_logs' = logged(<<Call("failed"), Sleep(retry_delay(rv_retry_count))>>)
    /\ rv_retry_count' = rv_retry_count + 1
    /\ UNCHANGED <<rvConfig, rvCounters, rv_idx, rv_trace, rv_list_outcome,
                   rv_diff_outcome, rv_changed_files, rv_diff, rv_requests,
                   rv_pc, rv_conclusion, rv_exit>>
    /\ UNCHANGED rvOthers

\* review_code_with_llm, lines 143-146, and main, lines 246-249: the last
\* attempt fails, the call returns None; the file is counted and the loop goes
\* on
RvReviewFailed ==
    /\ rv_pc = "llm" /\ is_last_attempt(rv_retry_count)
    /\ rv_logs' = logged(<<Call("failed")>>)
    /\ rv_reviewed_files' = rv_reviewed_files + 1
    /\ rv_trace' = Append(rv_trace, "review_failed")
    /\ rv_idx' = rv_idx + 1
    /\ rv_pc' = "loop"
    /\ UNCHANGED <<rvConfig, rv_total_issues, rv_high_severity_issues,
                   rv_low_quality_files, rv_retry_count, rv_list_outcome,
                   rv_diff_outcome, rv_changed_files, rv_diff, rv_requests,
                   rv_conclusion, rv_exit>>
    /\ UNCHANGED rvOthers

\* main, lines 278-328: the conclusion is written and the process exits
RvConclude ==
    /\ rv_pc = "loop" /\ rv_idx = Len(considered)
    /\ rv_conclusion' = conclude(rv_reviewed_files, rv_high_severity_issues,
                                 rv_low_quality_files)
    /\ rv_exit' = rv_exit_status(rv_high_severity_issues)
    /\ rv_pc' = "exit"
    /\ UNCHANGED <<rvConfig, rvCounters, rvLoop, rv_list_outcome,
                   rv_diff_outcome, rv_changed_files, rv_diff, rv_requests>>
    /\ UNCHANGED rvOthers

(***************************************************************************)
(* The specifications: one run of one utility.                             *)
(***************************************************************************)
InitReport == RepInit /\ FmtIdle /\ EvIdle /\ RvIdle
SpecReport == InitReport /\ [][RepMain]_vars

FmtNext == FmtUsage \/ FmtCheck \/ FmtReport
InitFormat == FmtInit /\ RepIdle /\ EvIdle /\ RvIdle
SpecFormat == InitFormat /\ [][FmtNext]_vars

EvNext == EvUsage \/ EvNoKey \/ EvBegin \/ EvAttempt \/ EvGiveUp \/ EvFinish
InitEval == EvInit /\ RepIdle /\ FmtIdle /\ RvIdle
SpecEval == InitEval /\ [][EvNext]_vars

RvNext == RvGetChangedFiles \/ RvDiffNoEnv \/ RvGetDiff \/ RvSkip
            \/ RvFetchFailed \/ RvFetched \/ RvReviewed \/ RvRetry
            \/ RvReviewFailed \/ RvConclude
InitReview == RvInit /\ RepIdle /\ FmtIdle /\ EvIdle
SpecReview == InitReview /\ [][RvNext]_vars

(***************************************************************************)
(* The properties.                                                         *)
(***************************************************************************)
Min(a, b) == IF a < b THEN a ELSE b
CountIn(seq, S) == Cardinality({ i \in 1..Len(seq) : seq[i] \in S })

\* C1: the conclusion the reviewer writes is "failure" exactly when there is a
\* high-severity issue or a low-quality file, "neutral" exactly when no
\* considered file got as far as the review (none considered, or each one
\* removed, binary or unfetchable), and "success" in every other case.
C1_Conclusion ==
    rv_conclusion # None =>
        LET reviewable == CountIn(rv_trace, {"reviewed", "review_failed"}) > 0
            flagged == rv_high_severity_issues > 0 \/ rv_low_quality_files > 0
        IN /\ rv_conclusion \in {"failure", "success", "neutral"}
           /\ (rv_conclusion = "failure") <=> flagged
           /\ (rv_conclusion = "success") <=> (reviewable /\ ~flagged)
           /\ (rv_conclusion = "neutral") <=> ~reviewable
           /\ Len(rv_trace) = Len(considered)

\* a run over two files, one skipped and one unfetchable, ends neutral
C1_Witness ==
    /\ rv_conclusion = "neutral"
    /\ CountIn(rv_trace, {"skipped"}) > 0
    /\ CountIn(rv_trace, {"unfetchable"}) > 0

\* C2: when the format validator exits after its checks, it has concluded
\* "success" with exit status 0 exactly when the title matches the pattern and
\* the stripped body has at least 50 characters, and "failure" with exit
\* status 1 otherwise; a title that does not match has a message that holds
\* the title and the pattern.
C2_TopLevelResult ==
    (fmt_pc = "exit" /\ Len(fmt_argv) >= 1) =>
        LET accept == re_match_title(pr_title)
                        /\ len(strip(pr_body)) >= 50
        IN /\ accept => (fmt_conclusion = "success" /\ fmt_exit = 0)
           /\ ~accept => (fmt_conclusion = "failure" /\ fmt_exit = 1)
           /\ ~re_match_title(pr_title) =>
                 /\ ~fmt_title_valid
                 /\ fmt_title_message.title = pr_title
                 /\ fmt_title_message.pattern = PR_TITLE_REGEX

\* the length of a body once its leading and trailing white space is dropped,
\* from the first to the last run that is no white space
TrimmedLen(body) ==
    LET solid == { i \in 1..Len(body) : ~IsSpace(body[i].c) }
    IN IF solid = {} THEN 0
       ELSE LET first == CHOOSE i \in solid : \A j \in solid : i <= j
                last == CHOOSE i \in solid : \A j \in solid : j <= i
            IN len(SubSeq(body, first, last))

\* C3: a body whose stripped length is below 50 is invalid, with or without a
\* heading; a body whose stripped length is at least 50 is valid, and when it
\* has no heading its message carries the warning.
C3_BodyHardSoft ==
    (fmt_pc \in {"report", "exit"} /\ Len(fmt_argv) >= 1) =>
        /\ TrimmedLen(pr_body) < 50 => ~fmt_body_valid
        /\ TrimmedLen(pr_body) >= 50 => fmt_body_valid
        /\ (TrimmedLen(pr_body) >= 50 /\ ~re_search_heading(pr_body)) =>
              (fmt_body_valid /\ fmt_body_message.warning)

\* a body of 50 and more characters without a heading, padded with white
\* space to the left, passes with the warning, and the run concludes success
C3_Witness ==
    /\ fmt_pc = "report"
    /\ Len(fmt_argv) = 2
    /\ Len(pr_body) > 1 /\ IsSpace(pr_body[1].c)
    /\ TrimmedLen(pr_body) >= 50
    /\ ~re_search_heading(pr_body)
    /\ fmt_body_valid /\ fmt_body_message.warning
    /\ fmt_conclusion = "success"

\* C4: an evaluation with score 6 and is_acceptable true exits 0, and an
\* evaluation with a score below 6 exits 1.
C4_VerdictFollowsScore ==
    (ev_pc = "exit" /\ ev_evaluation # NoEvaluation) =>
        /\ (ev_evaluation.quality_score = 6 /\ ev_evaluation.is_acceptable)
              => ev_exit = 0
        /\ ev_evaluation.quality_score < 6 => ev_exit = 1

\* C5: create_check_run returns true exactly when the POST was made and
\* answered 201, never raises, and makes no POST and returns false when a
\* variable is missing; the submitter exits 0 exactly when the submission
\* succeeded or the conclusion is "success", and 1 otherwise.
C5_ReportOutcome ==
    rep_pc = "exit" =>
        /\ ~rep_raised
        /\ rep_success <=> (rep_posted /\ rep_status.kind = "status"
                              /\ rep_status.code = 201)
        /\ ~(rep_env.token /\ rep_env.repo /\ rep_env.sha) =>
              (~rep_posted /\ ~rep_success)
        /\ (rep_success \/ rep_conclusion = "success") => rep_exit = 0
        /\ ~(rep_success \/ rep_conclusion = "success") => rep_exit = 1

\* a POST answered 204 is no success, and with the conclusion "failure" the
\* submitter exits 1
C5_Witness ==
    /\ rep_pc = "exit" /\ rep_posted
    /\ rep_status.kind = "status" /\ rep_status.code = 204
    /\ rep_conclusion = "failure"
    /\ ~rep_success /\ rep_exit = 1

\* C6: once the report has been attempted, the exit status of the format
\* validator and of the quality evaluator is the one the verdict alone gives,
\* whatever became of the report.
C6_ExitIgnoresReport ==
    /\ (fmt_pc = "exit" /\ fmt_report.kind # "none") =>
          fmt_exit = (IF fmt_conclusion = "success" THEN 0 ELSE 1)
    /\ (ev_pc = "exit" /\ ev_comment # "") =>
          ev_exit = (IF ev_evaluation.is_acceptable THEN 0 ELSE 1)

\* C7: with maxFiles >= 0 the loop goes through the first
\* min(maxFiles, number of changed files) entries of the list in list order,
\* skipped ones included, and no more files are reviewed than that.
C7_MaxFilesCap ==
    rv_max_files >= 0 =>
        LET cap == Min(rv_max_files, Len(rv_changed_files))
        IN /\ Len(rv_trace) <= cap
           /\ rv_reviewed_files <= cap
           /\ rv_conclusion # None => Len(rv_trace) = cap
           /\ \A i \in 1..Len(rv_trace) :
                 (rv_trace[i] = "skipped") <=>
                     (rv_changed_files[i].status = "removed"
                        \/ rv_changed_files[i].binary)

\* two changed files and maxFiles = 1: one file is considered
C7_Witness ==
    /\ rv_conclusion # None
    /\ rv_max_files = 1 /\ Len(rv_changed_files) = 2
    /\ Len(rv_trace) = 1 /\ rv_reviewed_files = 1

Calls(log) == { i \in 1..Len(log) : log[i].op = "call" }
FailedCalls(log) == { i \in Calls(log) : log[i].res # "json" }

\* C8: the evaluator calls the completion endpoint at most 3 times; a call
\* that raises or answers with no JSON is followed by a pause of 2 seconds, a
\* call that answers with JSON is the last one and its answer is the
\* evaluation; after 3 failed calls the only step left is the exit with
\* status 1, without an evaluation.
C8_RetryPolicy ==
    /\ Cardinality(Calls(ev_log)) <= 3
    /\ \A i \in 1..Len(ev_log) :
          /\ ev_log[i].op = "sleep" =>
                (ev_log[i].secs = 2 /\ i > 1 /\ ev_log[i - 1].op = "call")
          /\ i \in FailedCalls(ev_log) =>
                (i < Len(ev_log) /\ ev_log[i + 1] = Sleep(2))
          /\ (ev_log[i].op = "call" /\ ev_log[i].res = "json") =>
                i = Len(ev_log)
    /\ ev_evaluation # NoEvaluation =>
          (ev_log # <<>> /\ ev_log[Len(ev_log)] = Call("json"))
    /\ (ev_pc = "evaluated" \/ (ev_pc = "exit" /\ ev_exit = 0)) =>
          ev_evaluation \in Evaluations
    /\ Cardinality(FailedCalls(ev_log)) = 3 =>
          /\ ev_evaluation = NoEvaluation
          /\ ev_pc \in {"loop", "exit"}
          /\ ev_pc = "loop" => (ENABLED EvGiveUp /\ ~ENABLED EvAttempt)
          /\ ev_pc = "exit" => ev_exit = 1

\* three failed calls, of both kinds, and the exit with status 1
C8_Witness ==
    /\ ev_pc = "exit" /\ ev_exit = 1
    /\ Cardinality(FailedCalls(ev_log)) = 3
    /\ \E i, j \in Calls(ev_log) :
          ev_log[i].res = "exception" /\ ev_log[j].res = "unparseable"

\* C9: every review call makes at most 3 attempts with a pause of 2 seconds
\* between attempts, and a call whose 3 attempts fail ends the process with a
\* non-zero status and without a conclusion.
C9_SamePolicyAndFatal ==
    /\ \A k \in 1..Len(rv_logs) :
          /\ Cardinality(Calls(rv_logs[k])) <= 3
          /\ \A i \in 1..Len(rv_logs[k]) :
                rv_logs[k][i].op = "sleep" => rv_logs[k][i].secs = 2
    /\ CountIn(rv_trace, {"review_failed"}) > 0 =>
          (rv_pc = "exit" /\ rv_exit # 0 /\ rv_conclusion = None)

\* the log of a review call: failed attempts with a pause of 1 second after
\* the first and of 2 seconds after the second, no pause after the third, and
\* an attempt that answers with JSON, if any, at the end
ReviewLogs ==
    { <<>>, <<Call("json")>>,
      <<Call("failed"), Sleep(1)>>,
      <<Call("failed"), Sleep(1), Call("json")>>,
      <<Call("failed"), Sleep(1), Call("failed"), Sleep(2)>>,
      <<Call("failed"), Sleep(1), Call("failed"), Sleep(2), Call("json")>>,
      <<Call("failed"), Sleep(1), Call("failed"), Sleep(2), Call("failed")>> }

\* C9 as amended: every review call makes at most 3 attempts, pausing 1 second
\* after the first failed attempt and 2 seconds after the second, each call
\* starting afresh; a call whose 3 attempts fail is not fatal: the file is
\* counted as reviewed, adds no issue, the loop goes on, and a run that exits
\* after such a call has written its conclusion.
C9_BackoffAndContinue ==
    /\ \A k \in 1..Len(rv_logs) : rv_logs[k] \in ReviewLogs
    /\ \A k \in 1..(Len(rv_logs) - 1) :
          rv_logs[k][Len(rv_logs[k])].res \in {"json", "failed"}
             /\ rv_logs[k][Len(rv_logs[k])].op = "call"
    /\ Len(rv_logs) = CountIn(rv_trace, {"reviewed", "review_failed"})
                        + (IF rv_pc = "llm" THEN 1 ELSE 0)
    /\ rv_reviewed_files = CountIn(rv_trace, {"reviewed", "review_failed"})
    /\ rv_total_issues <= MaxIssues * CountIn(rv_trace, {"reviewed"})
    /\ (rv_pc = "exit" /\ CountIn(rv_trace, {"review_failed"}) > 0) =>
          /\ rv_conclusion # None
          /\ Len(rv_trace) = Len(considered)
          /\ rv_exit = (IF rv_high_severity_issues > 0 THEN 1 ELSE 0)

\* the first file's review fails three times, the second file is reviewed
\* all the same, and the run concludes
C9_Witness ==
    /\ rv_conclusion # None
    /\ rv_trace = <<"review_failed", "reviewed">>
    /\ Len(rv_logs) = 2
    /\ Cardinality(FailedCalls(rv_logs[1])) = 3
    /\ rv_logs[2] = <<Call("failed"), Sleep(1), Call("json")>>

\* C10: a run in which the file-list request or the diff request raised or
\* was answered with a status that is no 2xx exits with a non-zero status and
\* without a conclusion.
C10_FetchFailureFatal ==
    LET bad(o) == o.kind = "exception"
                    \/ (o.kind = "status" /\ ~(o.code >= 200 /\ o.code < 300))
    IN (rv_pc = "exit" /\ (bad(rv_list_outcome) \/ bad(rv_diff_outcome))) =>
          (rv_exit # 0 /\ rv_conclusion = None)

\* the calls of the completion endpoint the reviewer has made
RvLlmCalls == UNION { { <<k, i>> : i \in Calls(rv_logs[k]) } :
                        k \in 1..Len(rv_logs) }

\* C11: a run of the quality evaluator without OPENAI_API_KEY, and a run of
\* the code reviewer without OPENAI_API_KEY, GITHUB_TOKEN, PR_NUMBER or
\* REPO_FULL_NAME, exits with a non-zero status, having made no request to
\* the hosting platform and no call of the completion endpoint.
C11_ConfigurationFatal ==
    /\ (ev_pc = "exit" /\ ev_argc >= 1 /\ ~ev_api_key) =>
          (ev_exit # 0 /\ ev_log = <<>> /\ ev_comment = "")
    /\ (rv_pc = "exit" /\ (~rv_api_key \/ ~rv_env_complete(rv_env))) =>
          (rv_exit # 0 /\ rv_requests = 0 /\ RvLlmCalls = {}
             /\ rv_conclusion = None)

\* C12: a run that has written its conclusion exits 1 when the conclusion is
\* "failure" and 0 when it is "success" or "neutral".
C12_ExitFollowsConclusion ==
    (rv_pc = "exit" /\ rv_conclusion # None) =>
        rv_exit = (IF rv_conclusion = "failure" THEN 1 ELSE 0)

\* C12 as amended: a run that has written its conclusion exits 1 exactly when
\* there is a high-severity issue, and then the conclusion is "failure"; it
\* exits 0 when the conclusion is "success" or "neutral", and also when the
\* conclusion is "failure" on account of low-quality files alone.
C12_ExitFollowsHighSeverity ==
    (rv_pc = "exit" /\ rv_conclusion # None) =>
        /\ rv_exit \in {0, 1}
        /\ (rv_exit = 1) <=> (rv_high_severity_issues > 0)
        /\ rv_exit = 1 => rv_conclusion = "failure"
        /\ rv_conclusion \in {"success", "neutral"} => rv_exit = 0
        /\ (rv_conclusion = "failure" /\ rv_high_severity_issues = 0) =>
              (rv_low_quality_files > 0 /\ rv_exit = 0)

\* a low-quality file with an issue that is not of high severity: the
\* conclusion is "failure" and the exit status 0
C12_Witness ==
    /\ rv_pc = "exit" /\ rv_conclusion = "failure"
    /\ rv_low_quality_files > 0 /\ rv_high_severity_issues = 0
    /\ rv_total_issues > 0
    /\ rv_exit = 0

====
